---- MODULE Spec2Model ----
(***************************************************************************)
(* Student Welfare Fee Manager (welfare_fee_manager.py).                   *)
(*                                                                         *)
(* Text is modelled as a sequence of characters, each character a          *)
(* one-element token: "0".."9", " ", ".", "x" (a letter), "ar3" (U+0663,   *)
(* ARABIC-INDIC DIGIT THREE: isdigit() and decimal), "sup2" (U+00B2,       *)
(* SUPERSCRIPT TWO: isdigit() but not decimal).  A CSV file is a sequence  *)
(* of lines, each line a sequence of cells, the first line the header.     *)
(* A dict of students is a sequence of records with distinct ids, in       *)
(* insertion order, as a Python dict is.                                   *)
(***************************************************************************)
EXTENDS Integers, Sequences, FiniteSets, TLC

VARIABLES
    payers,            \* self.payers: dict id -> {id, name, email}
    in_payers,         \* self.in_payers: list of dicts
    not_in_payers,     \* self.not_in_payers: list of dicts
    tree_in_payers,    \* rows shown in self.tree_in_payers
    tree_not_in_payers,\* rows shown in self.tree_not_in_payers
    lbl_payers_count,  \* number shown by self.lbl_payers_count
    disk,              \* PERSIST_FILE: [exists, text]
    export_file,       \* the file export_list last wrote to: [exists, lines]
    pc,                \* "running", or "crashed" when __init__ raised
    lastOp,            \* the handler that ran last and how it ended
    lastLoaded,        \* history: roster of the last successful master load
    call,              \* logic-layer function under test and its arguments
    ret                \* its result

vars == <<payers, in_payers, not_in_payers, tree_in_payers, tree_not_in_payers,
          lbl_payers_count, disk, export_file, pc, lastOp, lastLoaded, call, ret>>

shellVars == <<payers, in_payers, not_in_payers, tree_in_payers,
               tree_not_in_payers, lbl_payers_count, disk, export_file, pc,
               lastOp, lastLoaded>>

-----------------------------------------------------------------------------
(* Bounds of the model *)

\* longest run of digits in a generated ID cell
MaxCellLen == 11
\* number of distinct identifiers in generated rosters
NumIds == 3
\* a failing write leaves at most this many tokens of the new text on disk
MaxPartial == 1

(* Program constants *)
MinIdLen == 7
MaxIdLen == 10

-----------------------------------------------------------------------------
(* Python str *)

AsciiDigits == {"0", "1", "2", "3", "4", "5", "6", "7", "8", "9"}
\* characters for which str.isdigit() is true
IsDigitChars == AsciiDigits \cup {"ar3", "sup2"}
\* characters float() and int() read as decimal digits
DecimalChars == AsciiDigits \cup {"ar3"}
Whitespace == {" "}

\* the ASCII digit with the decimal value of character c
DigitValue(c) == IF c = "ar3" THEN "3" ELSE c

DigitChar(d) ==
    CASE d = 0 -> "0" [] d = 1 -> "1" [] d = 2 -> "2" [] d = 3 -> "3"
      [] d = 4 -> "4" [] d = 5 -> "5" [] d = 6 -> "6" [] d = 7 -> "7"
      [] d = 8 -> "8" [] d = 9 -> "9"

RECURSIVE lstrip(_)
lstrip(s) ==
    IF s = <<>> THEN s
    ELSE IF Head(s) \in Whitespace THEN lstrip(Tail(s)) ELSE s

RECURSIVE rstrip(_)
rstrip(s) ==
    IF s = <<>> THEN s
    ELSE IF s[Len(s)] \in Whitespace THEN rstrip(SubSeq(s, 1, Len(s) - 1)) ELSE s

str_strip(s) == rstrip(lstrip(s))

str_isdigit(s) == s # <<>> /\ \A i \in 1..Len(s) : s[i] \in IsDigitChars

\* float(s) returns, for the literals of this alphabet: optional surrounding
\* whitespace, decimal digits, at most one ".", at least one digit
float_ok(s) ==
    LET t == str_strip(s) IN
    /\ \A i \in 1..Len(t) : t[i] \in DecimalChars \cup {"."}
    /\ Cardinality({i \in 1..Len(t) : t[i] = "."}) <= 1
    /\ \E i \in 1..Len(t) : t[i] \in DecimalChars

\* int(float(s)): the integer, held as the ASCII digits of the integer part
\* of the literal.  float() is exact below 2^53, which every literal within
\* MaxCellLen is.
int_float(s) ==
    LET t    == str_strip(s)
        dots == {i \in 1..Len(t) : t[i] = "."}
        upto == IF dots = {} THEN Len(t) ELSE (CHOOSE i \in dots : TRUE) - 1
    IN [i \in 1..upto |-> DigitValue(t[i])]

\* str(n): no leading zeros, "0" for zero
RECURSIVE int_str(_)
int_str(ds) ==
    IF ds = <<>> THEN <<"0">>
    ELSE IF Head(ds) = "0" /\ Len(ds) > 1 THEN int_str(Tail(ds))
    ELSE ds

-----------------------------------------------------------------------------
(* dict of students, kept in insertion order *)

Keys(d) == {d[i].id : i \in 1..Len(d)}

\* d[key] = rec: an existing key keeps its position, a new key goes last
DictSet(d, rec) ==
    IF rec.id \in Keys(d)
    THEN [i \in 1..Len(d) |-> IF d[i].id = rec.id THEN rec ELSE d[i]]
    ELSE Append(d, rec)

-----------------------------------------------------------------------------
(* csv.DictReader *)

NonBlank(lines) == SelectSeq(lines, LAMBDA r : r # <<>>)

fieldnames(file) == IF NonBlank(file.lines) = <<>> THEN <<>> ELSE Head(NonBlank(file.lines))

data_rows(file) == IF NonBlank(file.lines) = <<>> THEN <<>> ELSE Tail(NonBlank(file.lines))

\* row.get(col, ''): a column the header lacks gives '', a column the row is
\* too short for gives None (DictReader's restval)
row_get(fields, row, col) ==
    LET at == {i \in 1..Len(fields) : fields[i] = col} IN
    IF at = {} THEN [none |-> FALSE, val |-> <<>>]
    ELSE LET i == CHOOSE j \in at : \A k \in at : k <= j IN
         IF i > Len(row) THEN [none |-> TRUE, val |-> <<>>]
         ELSE [none |-> FALSE, val |-> row[i]]

-----------------------------------------------------------------------------
(* Logic layer *)

\* the test of line 56 on the stripped ID cell
valid_id(id_val) ==
    str_isdigit(id_val) /\ MinIdLen <= Len(id_val) /\ Len(id_val) <= MaxIdLen

\* row.get(col, '').strip() if col else ''
opt_field(fields, row, col) ==
    IF col = <<>> THEN [none |-> FALSE, val |-> <<>>]
    ELSE LET g == row_get(fields, row, col) IN [none |-> g.none, val |-> str_strip(g.val)]

\* err is "" when the function returns, else the exception it raises
extract_students_from_csv(file, id_col, name_col, email_col) ==
    LET fields == fieldnames(file)
        rows   == data_rows(file)
        RECURSIVE loop(_, _)
        loop(i, students) ==
            IF i > Len(rows) THEN [err |-> "", students |-> students]
            ELSE LET row == rows[i]
                     idc == row_get(fields, row, id_col)
                 IN IF idc.none THEN [err |-> "AttributeError", students |-> <<>>]
                    ELSE LET id_val == str_strip(idc.val) IN
                         IF valid_id(id_val)
                         THEN LET n == opt_field(fields, row, name_col)
                                  e == opt_field(fields, row, email_col)
                              IN IF n.none \/ e.none
                                 THEN [err |-> "AttributeError", students |-> <<>>]
                                 ELSE loop(i + 1, DictSet(students,
                                          [id |-> id_val, name |-> n.val, email |-> e.val]))
                         ELSE loop(i + 1, students)
    IN IF ~file.readable THEN [err |-> "OSError", students |-> <<>>]
       ELSE loop(1, <<>>)

\* a variant that walks the master list instead of the compared list
compare_students_walks_master(master_dict, compare_dict) ==
    [in_payers     |-> SelectSeq(master_dict, LAMBDA s : s.id \in Keys(compare_dict)),
     not_in_payers |-> SelectSeq(master_dict, LAMBDA s : s.id \notin Keys(compare_dict))]

compare_students(master_dict, compare_dict) ==
    [in_payers     |-> SelectSeq(compare_dict, LAMBDA s : s.id \in Keys(master_dict)),
     not_in_payers |-> SelectSeq(compare_dict, LAMBDA s : s.id \notin Keys(master_dict))]

\* lines 91-94: str(int(float(id_val))), or the value itself when that raises
export_id(id_val) == IF float_ok(id_val) THEN int_str(int_float(id_val)) ELSE id_val

ExportHeader == << <<"I", "D">>, <<"N", "a", "m", "e">>, <<"E", "m", "a", "i", "l">> >>

\* the lines export_students_to_csv writes
export_students_to_csv(students) ==
    <<ExportHeader>> \o
    [i \in 1..Len(students) |->
        <<export_id(students[i].id), students[i].name, students[i].email>>]

-----------------------------------------------------------------------------
(* json.dump / json.load on PERSIST_FILE.  The text is a sequence of JSON     *)
(* tokens; a write that fails leaves a prefix of them in the file.           *)

Tok(t) == [t |-> t, v |-> <<>>]
Str(s) == [t |-> "str", v |-> s]

KeyId == <<"i", "d">>
KeyName == <<"n", "a", "m", "e">>
KeyEmail == <<"e", "m", "a", "i", "l">>

json_entry(s) ==
    <<Str(s.id), Tok(":"), Tok("{"),
      Str(KeyId), Tok(":"), Str(s.id), Tok(","),
      Str(KeyName), Tok(":"), Str(s.name), Tok(","),
      Str(KeyEmail), Tok(":"), Str(s.email), Tok("}")>>

EntryLen == 15

RECURSIVE json_entries(_)
json_entries(students) ==
    IF students = <<>> THEN <<>>
    ELSE IF Len(students) = 1 THEN json_entry(students[1])
    ELSE json_entry(Head(students)) \o <<Tok(",")>> \o json_entries(Tail(students))

json_dump(students) == <<Tok("{")>> \o json_entries(students) \o <<Tok("}")>>

\* does an entry as json_entry writes it start at text[i]?
entry_at(text, i) ==
    /\ i + EntryLen - 1 <= Len(text)
    /\ text[i].t = "str"
    /\ text[i + 1] = Tok(":") /\ text[i + 2] = Tok("{")
    /\ text[i + 3] = Str(KeyId) /\ text[i + 4] = Tok(":") /\ text[i + 5].t = "str"
    /\ text[i + 6] = Tok(",")
    /\ text[i + 7] = Str(KeyName) /\ text[i + 8] = Tok(":") /\ text[i + 9].t = "str"
    /\ text[i + 10] = Tok(",")
    /\ text[i + 11] = Str(KeyEmail) /\ text[i + 12] = Tok(":") /\ text[i + 13].t = "str"
    /\ text[i + 14] = Tok("}")

json_load(text) ==
    LET bad == [err |-> "JSONDecodeError", students |-> <<>>]
        RECURSIVE entries(_, _)
        entries(i, acc) ==
            IF ~entry_at(text, i) THEN bad
            ELSE LET rec  == [id |-> text[i + 5].v, name |-> text[i + 9].v,
                              email |-> text[i + 13].v]
                     next == i + EntryLen
                     got  == DictSet(acc, rec)
                 IN IF next > Len(text) THEN bad
                    ELSE IF text[next] = Tok("}")
                         THEN IF next = Len(text) THEN [err |-> "", students |-> got] ELSE bad
                    ELSE IF text[next] = Tok(",") THEN entries(next + 1, got)
                    ELSE bad
    IN IF Len(text) < 2 \/ text[1] # Tok("{") THEN bad
       ELSE IF text = <<Tok("{"), Tok("}")>> THEN [err |-> "", students |-> <<>>]
       ELSE entries(2, <<>>)

Min(a, b) == IF a < b THEN a ELSE b

\* how a write of `text` can go: open() fails; open() truncates the file and
\* the write fails with `written` tokens in the file; or all of it is written
WriteOutcomes(text) ==
    {[opened |-> FALSE, written |-> 0]} \cup
    {[opened |-> TRUE, written |-> k] : k \in (0..Min(Len(text) - 1, MaxPartial)) \cup {Len(text)}}

\* a variant that opens PERSIST_FILE with mode 'a' instead of 'w'
save_payers_list_append(students, d, w) ==
    LET text == json_dump(students) IN
    IF ~w.opened THEN [err |-> "OSError", disk |-> d]
    ELSE IF w.written < Len(text)
         THEN [err |-> "OSError",
               disk |-> [exists |-> TRUE, text |-> d.text \o SubSeq(text, 1, w.written)]]
    ELSE [err |-> "", disk |-> [exists |-> TRUE, text |-> d.text \o text]]

\* the file after open(PERSIST_FILE, 'w') and json.dump, and the exception if any
save_payers_list(students, d, w) ==
    LET text == json_dump(students) IN
    IF ~w.opened THEN [err |-> "OSError", disk |-> d]
    ELSE IF w.written < Len(text)
         THEN [err |-> "OSError",
               disk |-> [exists |-> TRUE, text |-> SubSeq(text, 1, w.written)]]
    ELSE [err |-> "", disk |-> [exists |-> TRUE, text |-> text]]

load_payers_list(d) ==
    IF d.exists THEN json_load(d.text) ELSE [err |-> "", students |-> <<>>]

-----------------------------------------------------------------------------
(* GUI layer: WelfareFeeApp *)

NoFile == [exists |-> FALSE, text |-> <<>>]
NoExport == [exists |-> FALSE, lines |-> <<>>]

\* msg: the messagebox the handler ends with ("" when it returns silently);
\* n, asked, invoked: for export_list, the length of its list, whether it
\* asked for a path and whether it called export_students_to_csv
Op(op, msg) ==
    [op |-> op, msg |-> msg, n |-> 0, asked |-> FALSE, invoked |-> FALSE]

\* the values update_results inserts into a Treeview
tree_rows(students) ==
    [i \in 1..Len(students) |-> <<students[i].id, students[i].name, students[i].email>>]

\* csv.reader's next(reader, None): the first line, None (here <<>>) if none
first_line(file) == IF file.lines = <<>> THEN <<>> ELSE file.lines[1]

\* what ask_columns_selection can return for a header: the three chosen
\* labels, or (None, None, None) when the dialog is closed without OK
ColumnChoices(header) ==
    LET labels == {header[i] : i \in 1..Len(header)} IN
    {[id |-> <<>>, name |-> <<>>, email |-> <<>>]} \cup
    {[id |-> i, name |-> n, email |-> e] : i \in labels, n \in labels, e \in labels}

\* files the user can pick in the file dialogs
ColTZ == <<"T", "Z">>
IdDana == <<"1", "2", "3", "4", "5", "6", "7">>
IdOmer == <<"7", "6", "5", "4", "3", "2", "1">>

CsvFile(lines) == [readable |-> TRUE, lines |-> lines]

ShellFiles ==
    { CsvFile(<< <<ColTZ>>, <<IdDana>>, <<<<"1", "2">>>> >>),
      CsvFile(<< <<ColTZ>>, <<IdDana>>, <<IdOmer>> >>),
      CsvFile(<< <<ColTZ>>, <<<<"1", "2">>>> >>),
      CsvFile(<<>>),
      [readable |-> FALSE, lines |-> <<>>] }

\* askopenfilename: a file, or '' when the dialog is cancelled
FileSelections ==
    {[chosen |-> FALSE, file |-> CsvFile(<<>>)]} \cup
    {[chosen |-> TRUE, file |-> f] : f \in ShellFiles}

\* the part of load_master_list and compare_new_list before extraction:
\* "go" when the handler goes on to extract, else the messagebox it ends with
before_extract(sel, cols) ==
    IF ~sel.chosen THEN ""
    ELSE IF ~sel.file.readable THEN "showerror"
    ELSE IF first_line(sel.file) = <<>> THEN "showerror"
    ELSE IF cols.id = <<>> THEN ""
    ELSE "go"

load_master_list(sel, cols, w) ==
    /\ pc = "running"
    /\ UNCHANGED <<in_payers, not_in_payers, tree_in_payers, tree_not_in_payers,
                   export_file, pc, call, ret>>
    /\ IF before_extract(sel, cols) # "go"
       THEN /\ lastOp' = Op("load_master_list", before_extract(sel, cols))
            /\ UNCHANGED <<payers, disk, lbl_payers_count, lastLoaded>>
       ELSE LET r == extract_students_from_csv(sel.file, cols.id, cols.name, cols.email) IN
            IF r.err # ""
            THEN /\ lastOp' = Op("load_master_list", "showerror")
                 /\ UNCHANGED <<payers, disk, lbl_payers_count, lastLoaded>>
            ELSE IF r.students = <<>>
            THEN /\ lastOp' = Op("load_master_list", "showwarning")
                 /\ UNCHANGED <<payers, disk, lbl_payers_count, lastLoaded>>
            ELSE LET s == save_payers_list(r.students, disk, w) IN
                 /\ payers' = r.students
                 /\ disk' = s.disk
                 /\ IF s.err # ""
                    THEN /\ lastOp' = Op("load_master_list", "showerror")
                         /\ UNCHANGED <<lbl_payers_count, lastLoaded>>
                    ELSE /\ lastOp' = Op("load_master_list", "showinfo")
                         /\ lbl_payers_count' = Len(r.students)
                         /\ lastLoaded' = [set |-> TRUE, students |-> r.students]

compare_new_list(sel, cols) ==
    /\ pc = "running"
    /\ UNCHANGED <<payers, disk, lbl_payers_count, lastLoaded, export_file, pc, call, ret>>
    /\ IF payers = <<>>
       THEN /\ lastOp' = Op("compare_new_list", "showwarning")
            /\ UNCHANGED <<in_payers, not_in_payers, tree_in_payers, tree_not_in_payers>>
       ELSE IF before_extract(sel, cols) # "go"
       THEN /\ lastOp' = Op("compare_new_list", before_extract(sel, cols))
            /\ UNCHANGED <<in_payers, not_in_payers, tree_in_payers, tree_not_in_payers>>
       ELSE LET r == extract_students_from_csv(sel.file, cols.id, cols.name, cols.email) IN
            IF r.err # ""
            THEN /\ lastOp' = Op("compare_new_list", "showerror")
                 /\ UNCHANGED <<in_payers, not_in_payers, tree_in_payers, tree_not_in_payers>>
            ELSE LET c == compare_students(payers, r.students) IN
                 /\ in_payers' = c.in_payers
                 /\ not_in_payers' = c.not_in_payers
                 /\ tree_in_payers' = tree_rows(c.in_payers)
                 /\ tree_not_in_payers' = tree_rows(c.not_in_payers)
                 /\ lastOp' = Op("compare_new_list", "showinfo")

\* asksaveasfilename answers: a path or '' ; the write: done, or failing at
\* open() (file untouched) or after open() (file left empty)
SaveAsAnswers == {"path", ""}
ExportWrites == {"ok", "open_failed", "write_failed"}

ExportOp(students, msg, asked, invoked) ==
    [op |-> "export_list", msg |-> msg, n |-> Len(students),
     asked |-> asked, invoked |-> invoked]

\* a variant without the `if not students` check of lines 301-303
export_list_unguarded(students, is_payers, answer, write) ==
    /\ pc = "running"
    /\ UNCHANGED <<payers, in_payers, not_in_payers, tree_in_payers, tree_not_in_payers,
                   lbl_payers_count, disk, lastLoaded, pc, call, ret>>
    /\ IF answer = ""
       THEN /\ lastOp' = ExportOp(students, "", TRUE, FALSE)
            /\ UNCHANGED export_file
       ELSE /\ lastOp' = ExportOp(students, IF write = "ok" THEN "showinfo" ELSE "showerror", TRUE, TRUE)
            /\ export_file' =
                 CASE write = "ok" ->
                        [exists |-> TRUE, lines |-> export_students_to_csv(students)]
                   [] write = "open_failed" -> export_file
                   [] write = "write_failed" -> [exists |-> TRUE, lines |-> <<>>]

export_list(students, is_payers, answer, write) ==
    /\ pc = "running"
    /\ UNCHANGED <<payers, in_payers, not_in_payers, tree_in_payers, tree_not_in_payers,
                   lbl_payers_count, disk, lastLoaded, pc, call, ret>>
    /\ IF students = <<>>
       THEN /\ lastOp' = ExportOp(students, "showwarning", FALSE, FALSE)
            /\ UNCHANGED export_file
       ELSE IF answer = ""
       THEN /\ lastOp' = ExportOp(students, "", TRUE, FALSE)
            /\ UNCHANGED export_file
       ELSE /\ lastOp' = ExportOp(students, IF write = "ok" THEN "showinfo" ELSE "showerror", TRUE, TRUE)
            /\ export_file' =
                 CASE write = "ok" ->
                        [exists |-> TRUE, lines |-> export_students_to_csv(students)]
                   [] write = "open_failed" -> export_file
                   [] write = "write_failed" -> [exists |-> TRUE, lines |-> <<>>]

\* the process ends and the program is started again: main() and __init__
Restart ==
    LET r == load_payers_list(disk) IN
    /\ UNCHANGED <<disk, export_file, lastLoaded, call, ret>>
    /\ in_payers' = <<>> /\ not_in_payers' = <<>>
    /\ tree_in_payers' = <<>> /\ tree_not_in_payers' = <<>>
    /\ IF r.err # ""
       THEN /\ pc' = "crashed"
            /\ payers' = <<>>
            /\ lbl_payers_count' = 0
            /\ lastOp' = Op("__init__", "showerror")
       ELSE /\ pc' = "running"
            /\ payers' = r.students
            /\ lbl_payers_count' = Len(r.students)
            /\ lastOp' = Op("__init__", "")

NoCall == [fn |-> "none"]
NoRet == [done |-> FALSE]

\* first launch: no PERSIST_FILE yet
Init ==
    /\ disk = NoFile
    /\ payers = load_payers_list(NoFile).students
    /\ in_payers = <<>> /\ not_in_payers = <<>>
    /\ tree_in_payers = <<>> /\ tree_not_in_payers = <<>>
    /\ lbl_payers_count = Len(payers)
    /\ export_file = NoExport
    /\ pc = "running"
    /\ lastOp = Op("__init__", "")
    /\ lastLoaded = [set |-> FALSE, students |-> <<>>]
    /\ call = NoCall
    /\ ret = NoRet

LoadMaster ==
    \E sel \in FileSelections :
      \E cols \in ColumnChoices(first_line(sel.file)) :
        \E w \in WriteOutcomes(json_dump(
                   extract_students_from_csv(sel.file, cols.id, cols.name, cols.email).students)) :
          load_master_list(sel, cols, w)

Compare ==
    \E sel \in FileSelections :
      \E cols \in ColumnChoices(first_line(sel.file)) :
        compare_new_list(sel, cols)

ExportIn ==
    \E answer \in SaveAsAnswers, write \in ExportWrites :
      export_list(in_payers, TRUE, answer, write)

ExportNotIn ==
    \E answer \in SaveAsAnswers, write \in ExportWrites :
      export_list(not_in_payers, FALSE, answer, write)

Next == LoadMaster \/ Compare \/ ExportIn \/ ExportNotIn \/ Restart

Spec == Init /\ [][Next]_vars

-----------------------------------------------------------------------------
(* The logic-layer functions on their own, applied to generated arguments *)

Pad(b) == IF b THEN <<" ">> ELSE <<>>

\* n digits, the first one `first`, with character c at position k (k = 0: none)
DigitRun(n, first, k, c) ==
    [i \in 1..n |-> IF i = k THEN c ELSE IF i = 1 THEN first ELSE "7"]

OddChars == {"ar3", "sup2", "x", ".", " "}

IdCells ==
    UNION { { Pad(l) \o DigitRun(n, f, k, c) \o Pad(t) :
                f \in {"0", "1"}, k \in 0..n, c \in OddChars, l \in BOOLEAN, t \in BOOLEAN }
            : n \in 0..MaxCellLen }

\* the n-th generated identifier, n in 1..9
IdOf(n) == <<"1", "2", "3", "4", "5", "6", DigitChar(n)>>

CellD == <<"D">>
CellMail == <<" ", "d", "@", "x">>

SmallRows ==
    { <<IdOf(1), CellD, CellMail>>, <<IdOf(1), <<"E">>, <<>>>>, <<IdOf(2), CellD, CellMail>>,
      <<<<"1", "2">>, <<"B">>, <<>>>>, <<IdOf(1)>>, <<IdOf(2), CellD>>, <<>> }

ExtractCalls ==
    { [fn |-> "extract", file |-> CsvFile(<<ExportHeader, <<c, CellD, CellMail>>>>),
       id_col |-> ExportHeader[1], name_col |-> ExportHeader[2], email_col |-> ExportHeader[3]]
      : c \in IdCells }
    \cup
    { [fn |-> "extract", file |-> CsvFile(<<ExportHeader, r1, r2>>),
       id_col |-> ExportHeader[1], name_col |-> n, email_col |-> e]
      : r1 \in SmallRows, r2 \in SmallRows,
        n \in {<<>>, ExportHeader[2]}, e \in {<<>>, ExportHeader[3]} }
    \cup
    { [fn |-> "extract", file |-> f, id_col |-> i, name_col |-> <<>>, email_col |-> <<>>]
      : f \in { [readable |-> FALSE, lines |-> <<>>], CsvFile(<<>>),
                CsvFile(<<ExportHeader, <<IdOf(1), CellD, CellMail>>>>) },
        i \in {ExportHeader[1], <<"x">>} }

\* dicts of students over the first NumIds identifiers, every order of every subset
Rosters(name) ==
    LET ids == {IdOf(n) : n \in 1..NumIds}
        seqs == UNION {[1..n -> ids] : n \in 0..NumIds}
    IN { [i \in 1..Len(q) |-> [id |-> q[i], name |-> name, email |-> <<>>]] :
           q \in {q \in seqs : \A i, j \in 1..Len(q) : q[i] = q[j] => i = j} }

CompareCalls ==
    { [fn |-> "compare", master_dict |-> m, compare_dict |-> c]
      : m \in Rosters(<<"m">>), c \in Rosters(<<"c">>) }

ExportCalls ==
    { [fn |-> "export", students |-> <<[id |-> c, name |-> CellD, email |-> <<>>]>>]
      : c \in IdCells }
    \cup { [fn |-> "export", students |-> r] : r \in Rosters(CellD) }

\* PERSIST_FILE as a call can find it: absent, or written by an earlier save
PriorFiles ==
    {NoFile} \cup
    {[exists |-> TRUE, text |-> json_dump(r)] : r \in {q \in Rosters(<<"m">>) : Len(q) <= 2}}

PersistCalls ==
    UNION { { [fn |-> "persist", students |-> r, before |-> b, w |-> w]
              : w \in WriteOutcomes(json_dump(r)) }
            : r \in Rosters(CellD), b \in PriorFiles }

LoadCalls == { [fn |-> "load", before |-> b] : b \in PriorFiles }

PureCalls == ExtractCalls \cup CompareCalls \cup ExportCalls \cup PersistCalls \cup LoadCalls

InitPure ==
    /\ disk = NoFile
    /\ payers = <<>>
    /\ in_payers = <<>> /\ not_in_payers = <<>>
    /\ tree_in_payers = <<>> /\ tree_not_in_payers = <<>>
    /\ lbl_payers_count = 0
    /\ export_file = NoExport
    /\ pc = "running"
    /\ lastOp = Op("__init__", "")
    /\ lastLoaded = [set |-> FALSE, students |-> <<>>]
    /\ call \in PureCalls
    /\ ret = NoRet

CallExtract ==
    /\ call.fn = "extract" /\ ~ret.done
    /\ LET r == extract_students_from_csv(call.file, call.id_col, call.name_col,
                                          call.email_col)
       IN ret' = [done |-> TRUE, err |-> r.err, students |-> r.students]
    /\ UNCHANGED <<shellVars, call>>

CallCompare ==
    /\ call.fn = "compare" /\ ~ret.done
    /\ LET c == compare_students(call.master_dict, call.compare_dict)
       IN ret' = [done |-> TRUE, in_payers |-> c.in_payers,
                  not_in_payers |-> c.not_in_payers]
    /\ UNCHANGED <<shellVars, call>>

CallExport ==
    /\ call.fn = "export" /\ ~ret.done
    /\ ret' = [done |-> TRUE, lines |-> export_students_to_csv(call.students)]
    /\ UNCHANGED <<shellVars, call>>

\* save_payers_list(students), then load_payers_list()
CallPersist ==
    /\ call.fn = "persist" /\ ~ret.done
    /\ LET s == save_payers_list(call.students, call.before, call.w)
           l == load_payers_list(s.disk)
       IN ret' = [done |-> TRUE, save_err |-> s.err, file |-> s.disk,
                  err |-> l.err, students |-> l.students]
    /\ UNCHANGED <<shellVars, call>>

CallLoad ==
    /\ call.fn = "load" /\ ~ret.done
    /\ LET l == load_payers_list(call.before)
       IN ret' = [done |-> TRUE, err |-> l.err, students |-> l.students]
    /\ UNCHANGED <<shellVars, call>>

NextPure == CallExtract \/ CallCompare \/ CallExport \/ CallPersist \/ CallLoad

SpecPure == InitPure /\ [][NextPure]_vars

-----------------------------------------------------------------------------
(* Properties *)

LoadMasterStep == lastOp'.op = "load_master_list"
CompareStep == lastOp'.op = "compare_new_list"
ExportStep == lastOp'.op = "export_list"

\* an Identifier: ASCII decimal digits only, MinIdLen to MaxIdLen of them
IsIdentifier(s) ==
    /\ MinIdLen <= Len(s) /\ Len(s) <= MaxIdLen
    /\ \A i \in 1..Len(s) : s[i] \in AsciiDigits

\* C1: a run of load_master_list that does not end with the success message
\* leaves self.payers as it was.
C1_FailedLoadKeepsMaster ==
    [][(LoadMasterStep /\ lastOp'.msg # "showinfo") => payers' = payers]_vars

\* C2: whatever a step does to PERSIST_FILE, a load that follows finds the
\* file as it was before the step or the complete roster that was saved,
\* never a truncated text.
C2_SaveIsAtomic ==
    [][\/ disk' = disk
       \/ /\ disk'.exists
          /\ json_load(disk'.text) = [err |-> "", students |-> payers']]_vars

\* C3: after a successful load_master_list the shell holds no comparison
\* result any more, and after a successful compare_new_list it holds the
\* result of that comparison of a chosen file against self.payers.
C3_ResultDiscarded ==
    [][/\ (LoadMasterStep /\ lastOp'.msg = "showinfo") =>
             /\ in_payers' = <<>> /\ not_in_payers' = <<>>
             /\ tree_in_payers' = <<>> /\ tree_not_in_payers' = <<>>
       /\ (CompareStep /\ lastOp'.msg = "showinfo") =>
             \E sel \in FileSelections :
               \E cols \in ColumnChoices(first_line(sel.file)) :
                 LET r == extract_students_from_csv(sel.file, cols.id, cols.name, cols.email)
                 IN /\ r.err = ""
                    /\ Keys(in_payers') \cup Keys(not_in_payers') = Keys(r.students)
                    /\ Len(in_payers') + Len(not_in_payers') = Len(r.students)
                    /\ Keys(in_payers') \subseteq Keys(payers)
                    /\ Keys(not_in_payers') \cap Keys(payers) = {}]_vars

\* C4: when extract returns, the trimmed ID cell of a data row is a key of
\* the result if and only if it is an Identifier (ASCII digits, 7 to 10 of
\* them), and the result has no more entries than the file has data rows.
C4_ExtractIffIdentifier ==
    (call.fn = "extract" /\ ret.done /\ ret.err = "") =>
        LET fields == fieldnames(call.file)
            rows   == data_rows(call.file)
        IN /\ \A i \in 1..Len(rows) :
                LET id_val == str_strip(row_get(fields, rows[i], call.id_col).val)
                IN id_val \in Keys(ret.students) <=> IsIdentifier(id_val)
           /\ Len(ret.students) <= Len(rows)

\* C5: extract of a readable file raises nothing, whatever its data rows hold.
C5_ExtractNeverRaisesOnRow ==
    (call.fn = "extract" /\ ret.done /\ call.file.readable) => ret.err = ""

\* position of the record with this id in a dict
PosOf(d, id) == CHOOSE i \in 1..Len(d) : d[i].id = id

\* q holds records of d only, each at most once, in d's order
SubSeqOf(q, d) ==
    /\ \A i \in 1..Len(q) : \E j \in 1..Len(d) : q[i] = d[j]
    /\ \A i, j \in 1..Len(q) : i < j => PosOf(d, q[i].id) < PosOf(d, q[j].id)

\* C6: compare(M, C) gives the records of C whose id is a key of M and the
\* records of C whose id is not, each in C's order; the lengths add up to
\* len(C), the outputs are disjoint, and nothing that is only in M appears.
C6_ComparePartitions ==
    (call.fn = "compare" /\ ret.done) =>
        LET M == call.master_dict
            C == call.compare_dict
        IN /\ SubSeqOf(ret.in_payers, C) /\ SubSeqOf(ret.not_in_payers, C)
           /\ \A j \in 1..Len(C) :
                /\ C[j].id \in Keys(M) <=> \E i \in 1..Len(ret.in_payers) : ret.in_payers[i] = C[j]
                /\ C[j].id \notin Keys(M) <=>
                     \E i \in 1..Len(ret.not_in_payers) : ret.not_in_payers[i] = C[j]
           /\ Len(ret.in_payers) + Len(ret.not_in_payers) = Len(C)
           /\ Keys(ret.in_payers) \cap Keys(ret.not_in_payers) = {}
           /\ \A k \in 1..Len(M) :
                M[k].id \notin Keys(C) =>
                    M[k].id \notin Keys(ret.in_payers) \cup Keys(ret.not_in_payers)

C6_Witness ==
    /\ call.fn = "compare" /\ ret.done
    /\ Len(ret.in_payers) >= 1 /\ Len(ret.not_in_payers) >= 1
    /\ Keys(call.master_dict) \ Keys(call.compare_dict) # {}

\* C7: once a master load has succeeded, self.payers and PERSIST_FILE both
\* hold exactly the roster of the most recent successful master load.
C7_MasterIsLastLoaded ==
    lastLoaded.set =>
        /\ payers = lastLoaded.students
        /\ load_payers_list(disk) = [err |-> "", students |-> lastLoaded.students]

\* C8: a load after a successful save(R) returns R; a load with no file
\* returns the empty roster and no error; saving what a load returned and
\* loading again returns the same roster.
C8_PersistenceRoundTrip ==
    /\ (call.fn = "persist" /\ ret.done /\ ret.save_err = "") =>
           ret.err = "" /\ ret.students = call.students
    /\ (call.fn = "load" /\ ret.done /\ ~call.before.exists) =>
           ret.err = "" /\ ret.students = <<>>
    /\ (call.fn = "load" /\ ret.done /\ ret.err = "") =>
           LET text == json_dump(ret.students)
               s == save_payers_list(ret.students, call.before,
                                     [opened |-> TRUE, written |-> Len(text)])
           IN s.err = "" /\ load_payers_list(s.disk) = [err |-> "", students |-> ret.students]

C8_Witness ==
    /\ call.fn = "persist" /\ ret.done /\ ret.save_err = ""
    /\ call.before.exists /\ json_load(call.before.text).students # <<>>
    /\ Len(call.students) >= 2
    /\ ret.students = call.students

\* C9: export_list never calls the exporter with an empty list: on an empty
\* list it asks for no path, writes no file and changes nothing the shell holds.
C9_NoEmptyExport ==
    [][ExportStep =>
          /\ lastOp'.invoked => lastOp'.n > 0
          /\ lastOp'.n = 0 =>
                /\ ~lastOp'.asked /\ ~lastOp'.invoked
                /\ UNCHANGED <<payers, in_payers, not_in_payers, tree_in_payers,
                               tree_not_in_payers, lbl_payers_count, disk,
                               export_file, pc>>]_vars

C9_Witness ==
    /\ lastOp.op = "export_list" /\ lastOp.n = 0 /\ lastOp.msg = "showwarning"
    /\ in_payers # <<>> /\ not_in_payers = <<>>
    /\ export_file.exists

\* C10: the ID cell export writes for a record whose id is an Identifier is
\* that id, and extracting the written file by its column ID gives the ids
\* back.
C10_ExportKeepsIdentifiers ==
    (call.fn = "export" /\ ret.done) =>
        /\ \A i \in 1..Len(call.students) :
              IsIdentifier(call.students[i].id) =>
                  ret.lines[i + 1][1] = call.students[i].id
        /\ (\A i \in 1..Len(call.students) : IsIdentifier(call.students[i].id)) =>
              Keys(extract_students_from_csv(CsvFile(ret.lines), ExportHeader[1],
                                             <<>>, <<>>).students)
                = Keys(call.students)

=============================================================================
